---- MODULE Spec2Model ----
(***************************************************************************)
(* Error taxonomy, error reporter, error handler and maintenance           *)
(* aggregation of the Playwright test framework                            *)
(* (core-framework/utils/ErrorConstants.ts and the ErrorReportingUtils     *)
(* class of core-framework/ai-integration/AITestMaintainer.ts), the page   *)
(* actions of BasePage that report through them, the end-to-end example    *)
(* tests that call these actions, the SauceApiClient and the ApiTestHelper *)
(* that owns it, SauceInventoryPage (sortProducts, getCartCount), the      *)
(* configuration loader (loadConfig) and AITestMaintainer.maintainTest.    *)
(*                                                                         *)
(* The error-log directory is a sequence of files in directory-listing     *)
(* order.  Every public method of ErrorReportingUtils is one action.  The  *)
(* awaits inside reportError touch only the page; the part that reads the  *)
(* clock for the file name and writes the file is synchronous, so calls of *)
(* several workers are serialised at the granularity of one call, and the  *)
(* time that passes during the awaits is an input of the action.           *)
(***************************************************************************)
EXTENDS Integers, Sequences, FiniteSets, TLC

VARIABLES
    clock,   \* Date.now(), in milliseconds
    logDir,  \* the .json files of errorLogPath, in readdirSync order
    last,    \* the call that completed last: its inputs and what the caller saw
    calls,   \* how many calls the behaviour has made (its budget is MaxCalls)
    test,    \* the test a worker runs: its name, the step it is at, its status
    api,     \* the SauceApiClient: its request context and its auth token
    helper,  \* the ApiTestHelper that owns the client: its isInitialized flag
    files    \* the test file AITestMaintainer works on, and its backup

vars == <<clock, logDir, last, calls, test, api, helper, files>>

----------------------------------------------------------------------------
(* Bounds of the model *)

\* most reportError and handleError calls in a behaviour of Spec
MaxCalls == 1
\* most files in the error-log directory under SpecStore
MaxFiles == 2
\* the clock runs from day 0 to day MaxDays
MaxDays == 1
\* most records of one category in an initial store of SpecReport
MaxPerCategory == 11
\* most SauceApiClient calls in a behaviour of SpecApi
MaxApiCalls == 3

Workers == {"worker1", "worker2"}

----------------------------------------------------------------------------
(* ErrorConstants.ts *)

\* Object.values(ErrorCategory), in declaration order
ErrorCategory ==
    << "DATA", "ELEMENT", "NAVIGATION", "ASSERTION", "NETWORK", "AUTH",
       "PERFORMANCE", "VISUAL", "API", "FRAMEWORK", "UNKNOWN" >>

Categories == { ErrorCategory[i] : i \in DOMAIN ErrorCategory }

EntryCodeOfDecade(c, cat, m, t) ==
    [code |-> (c \div 10) * 10, category |-> cat, message |-> m, title |-> t]

Entry(c, cat, m, t) == [code |-> c, category |-> cat, message |-> m, title |-> t]

ErrorCode ==
    [ ERROR_INVALID_DATA |-> Entry(1001, "DATA", "Invalid test data provided", "Invalid Data"),
      ERROR_MISSING_DATA |-> Entry(1002, "DATA", "Required test data is missing", "Missing Data"),
      ERROR_DATA_FORMAT |-> Entry(1003, "DATA", "Test data format is incorrect", "Data Format Error"),
      ERROR_ENV_DATA_NOT_FOUND |-> Entry(1004, "DATA", "Environment-specific data not found", "Environment Data Not Found"),
      ERROR_LOCATOR_NOT_FOUND |-> Entry(2001, "ELEMENT", "Element locator not found", "Element Not Found"),
      ERROR_ELEMENT_NOT_VISIBLE |-> Entry(2002, "ELEMENT", "Element is not visible", "Element Not Visible"),
      ERROR_ELEMENT_NOT_CLICKABLE |-> Entry(2003, "ELEMENT", "Element is not clickable", "Element Not Clickable"),
      ERROR_ELEMENT_WRONG_STATE |-> Entry(2004, "ELEMENT", "Element is in wrong state", "Element Wrong State"),
      ERROR_ELEMENT_TIMEOUT |-> Entry(2007, "ELEMENT", "Element interaction timed out", "Element Timeout"),
      ERROR_ELEMENT_ATTRIBUTE_MISSING |-> Entry(2005, "ELEMENT", "Element attribute is missing", "Missing Element Attribute"),
      ERROR_STALE_ELEMENT |-> Entry(2006, "ELEMENT", "Element is stale or no longer attached to DOM", "Stale Element"),
      ERROR_PAGE_NOT_LOADED |-> Entry(3001, "NAVIGATION", "Page failed to load", "Page Load Failed"),
      ERROR_NAVIGATION_FAILED |-> Entry(3002, "NAVIGATION", "Navigation to page failed", "Navigation Failed"),
      ERROR_REDIRECT_UNEXPECTED |-> Entry(3003, "NAVIGATION", "Unexpected redirect occurred", "Unexpected Redirect"),
      ERROR_URL_MISMATCH |-> Entry(3004, "NAVIGATION", "Current URL does not match expected URL", "URL Mismatch"),
      ERROR_ASSERTION_TEXT |-> Entry(4001, "ASSERTION", "Text assertion failed", "Text Assertion Failed"),
      ERROR_ASSERTION_VISIBILITY |-> Entry(4002, "ASSERTION", "Visibility assertion failed", "Visibility Assertion Failed"),
      ERROR_ASSERTION_COUNT |-> Entry(4003, "ASSERTION", "Count assertion failed", "Count Assertion Failed"),
      ERROR_ASSERTION_STATE |-> Entry(4004, "ASSERTION", "State assertion failed", "State Assertion Failed"),
      ERROR_ASSERTION_PROPERTY |-> Entry(4005, "ASSERTION", "Property assertion failed", "Property Assertion Failed"),
      ERROR_NETWORK_REQUEST_FAILED |-> Entry(5001, "NETWORK", "Network request failed", "Network Request Failed"),
      ERROR_NETWORK_TIMEOUT |-> Entry(5002, "NETWORK", "Network request timed out", "Network Timeout"),
      ERROR_STATUS_CODE_UNEXPECTED |-> Entry(5003, "NETWORK", "Unexpected HTTP status code", "Unexpected Status Code"),
      ERROR_AUTH_FAILED |-> Entry(6001, "AUTH", "Authentication failed", "Authentication Failed"),
      ERROR_SESSION_EXPIRED |-> Entry(6002, "AUTH", "Session expired", "Session Expired"),
      ERROR_UNAUTHORIZED |-> Entry(6003, "AUTH", "Unauthorized access", "Unauthorized Access"),
      ERROR_PERFORMANCE_TIMEOUT |-> Entry(7001, "PERFORMANCE", "Operation timed out due to performance issues", "Performance Timeout"),
      ERROR_PERFORMANCE_THRESHOLD |-> Entry(7002, "PERFORMANCE", "Performance threshold exceeded", "Performance Threshold Exceeded"),
      ERROR_VISUAL_MISMATCH |-> Entry(8001, "VISUAL", "Visual comparison failed", "Visual Comparison Failed"),
      ERROR_VISUAL_BASELINE_MISSING |-> Entry(8002, "VISUAL", "Visual baseline image missing", "Missing Visual Baseline"),
      ERROR_API_RESPONSE_INVALID |-> Entry(9001, "API", "Invalid API response", "Invalid API Response"),
      ERROR_API_SCHEMA_VALIDATION |-> Entry(9002, "API", "API schema validation failed", "API Schema Validation Failed"),
      ERROR_CONFIG_INVALID |-> Entry(10001, "FRAMEWORK", "Invalid framework configuration", "Invalid Configuration"),
      ERROR_DEPENDENCY_MISSING |-> Entry(10002, "FRAMEWORK", "Required dependency is missing", "Missing Dependency"),
      ERROR_UNKNOWN |-> Entry(99999, "UNKNOWN", "Unknown error occurred", "Unknown Error") ]

\* the catalog entries the calls of the model are made with
ReportedEntries ==
    { ErrorCode.ERROR_ELEMENT_NOT_CLICKABLE, ErrorCode.ERROR_NAVIGATION_FAILED }

----------------------------------------------------------------------------
(* JavaScript values *)

\* The details payloads a caller passes, by what the code can tell apart:
\*   "undefined"   no payload
\*   "plain"       a serializable object without a message property
\*   "withMessage" a serializable object with a non-empty message property
\*   "circular"    an object that refers to itself: JSON.stringify throws
\*   "bigintZero"  the value 0n: falsy, and JSON.stringify throws
\*   "withNaN"     a serializable object with a property whose value is NaN
DetailKinds ==
    {"undefined", "plain", "withMessage", "circular", "bigintZero", "withNaN"}

\* JSON.parse(JSON.stringify(details)) for a serializable payload: JSON has no
\* NaN, JSON.stringify writes null for it
ParsedDetails(details) == IF details = "withNaN" THEN "withNull" ELSE details

\* the truthiness test of `additionalDetails ? ... : ''`
Truthy(details) == details \notin {"undefined", "bigintZero"}

\* whether JSON.stringify(details) returns instead of throwing a TypeError
Serializable(details) == details \notin {"circular", "bigintZero"}

\* Text values (strings the code builds) are sequences; <<>> stands for undefined.
NoText == <<>>

\* JSON.stringify(details) for a serializable payload (undefined for undefined)
JsonText(details) == IF details = "undefined" THEN NoText ELSE <<"json of ", details>>

\* additionalDetails?.message
MessageOf(details) == IF details = "withMessage" THEN <<"message of ", details>> ELSE NoText

TypeError == [name |-> "TypeError"]

DayMs == 24 * 60 * 60 * 1000

ClockValues == { d * DayMs : d \in 0..MaxDays }

----------------------------------------------------------------------------
(* The page handle and the file system, as reportError sees them *)

\* this.page: never given ("absent"), a live page ("open"), a closed page
PageStates == {"absent", "open", "closed"}

\* this.page.url() throws: on a missing handle always, on a closed page when
\* the browser library says so
UrlThrows(page, urlFails) == page = "absent" \/ (page = "closed" /\ urlFails)

\* this.page.title() rejects
TitleRejects(page) == page = "closed"

\* this.page.screenshot() rejects: the page is closed, or the screenshot
\* directory cannot be written
ScreenshotRejects(page, shotFails) == page = "closed" \/ shotFails

PageUrl == "https://www.saucedemo.com/"
PageTitle == "Swag Labs"

\* What the environment does during one reportError call:
\*   page       this.page when the call starts
\*   pageAtShot this.page when the screenshot is taken (it may have closed)
\*   urlFails, shotFails, writeFails   the collaborator calls that fail
\*   elapsed    the time the awaits take, in clock steps
\*   pos        where the directory lists a new file
Env(page, pageAtShot, urlFails, shotFails, writeFails, elapsed, pos) ==
    [page |-> page, pageAtShot |-> pageAtShot, urlFails |-> urlFails,
     shotFails |-> shotFails, writeFails |-> writeFails, elapsed |-> elapsed,
     pos |-> pos]

----------------------------------------------------------------------------
(* ErrorReportingUtils: reportError, createError, handleError *)

getCurrentPageInfo(page, urlFails) ==
    IF UrlThrows(page, urlFails)
    THEN <<"Unable to get page info">>
    ELSE <<"URL: ", PageUrl, ", Title: ",
           IF TitleRejects(page) THEN "Unknown" ELSE PageTitle>>

\* screenshotName || `${category}_${code}_${timestamp}.png`
ScreenshotFileName(errorCode, timestamp, screenshotName) ==
    IF screenshotName # NoText
    THEN screenshotName
    ELSE <<errorCode.category, "_", errorCode.code, "_", timestamp, ".png">>

ScreenshotRelativePathAlways(page, shotFails, fileName) ==
    <<"error-screenshots/">> \o fileName

\* the try block around page.screenshot: the path relative to the results
\* directory, or undefined
ScreenshotRelativePath(page, shotFails, fileName) ==
    IF page # "absent" /\ ~ScreenshotRejects(page, shotFails)
    THEN <<"error-screenshots/">> \o fileName
    ELSE NoText

ErrorDetailsTitleAsMessage(errorCode, details, location, screenshot, timestamp) ==
    [code |-> errorCode.code, category |-> errorCode.category,
     message |-> errorCode.title, title |-> errorCode.title,
     details |-> details, location |-> location,
     screenshot |-> screenshot, timestamp |-> timestamp]

ErrorDetails(errorCode, details, location, screenshot, timestamp) ==
    [code |-> errorCode.code, category |-> errorCode.category,
     message |-> errorCode.message, title |-> errorCode.title,
     details |-> details, location |-> location,
     screenshot |-> screenshot, timestamp |-> timestamp]

\* JSON.parse(JSON.stringify(errorDetails, null, 2)): a property whose value is
\* undefined is left out of the text
Stringify(errorDetails) ==
    LET base == [code |-> errorDetails.code, category |-> errorDetails.category,
                 message |-> errorDetails.message, title |-> errorDetails.title,
                 location |-> errorDetails.location,
                 timestamp |-> errorDetails.timestamp]
        d == [details |-> ParsedDetails(errorDetails.details)]
        s == [screenshot |-> errorDetails.screenshot]
    IN  CASE errorDetails.details = "undefined" /\ errorDetails.screenshot = NoText -> base
          [] errorDetails.details = "undefined" /\ errorDetails.screenshot # NoText -> base @@ s
          [] errorDetails.details # "undefined" /\ errorDetails.screenshot = NoText -> base @@ d
          [] OTHER -> base @@ d @@ s

\* `error_${code}_${Date.now()}.json`
LogFileName(code, now) == <<code, now>>

File(name, mtime, body) == [name |-> name, mtime |-> mtime, body |-> body]

IndexOfName(dir, name) ==
    IF \E i \in DOMAIN dir : dir[i].name = name
    THEN CHOOSE i \in DOMAIN dir : dir[i].name = name
    ELSE 0

InsertAt(dir, pos, f) ==
    SubSeq(dir, 1, pos - 1) \o <<f>> \o SubSeq(dir, pos, Len(dir))

\* fs.writeFileSync(filePath, text): an existing file of that name is replaced
WriteFileSync(dir, name, mtime, body, pos) ==
    LET i == IndexOfName(dir, name)
    IN  IF i # 0
        THEN [dir EXCEPT ![i] = File(name, mtime, body)]
        ELSE InsertAt(dir, IF pos > Len(dir) + 1 THEN Len(dir) + 1 ELSE pos,
                      File(name, mtime, body))

\* the console.error call of reportError evaluates JSON.stringify(details) for
\* a truthy payload
ConsoleThrows(details) == Truthy(details) /\ ~Serializable(details)

\* the steps of reportError that can fail, in the order the code runs them
ReportSteps == <<"pageInfo", "screenshot", "console", "logErrorToFile">>

\* whether a step of reportError throws (or its promise rejects)
StepFails(step, details, env) ==
    CASE step = "pageInfo" -> UrlThrows(env.page, env.urlFails)
      [] step = "screenshot" ->
            env.pageAtShot # "absent" /\ ScreenshotRejects(env.pageAtShot, env.shotFails)
      [] step = "console" -> ConsoleThrows(details)
      [] step = "logErrorToFile" -> ~Serializable(details) \/ env.writeFails

\* the error a failing step throws
StepError(step) ==
    IF step \in {"console", "logErrorToFile"} THEN TypeError ELSE [name |-> "Error"]

CaughtLocallyNoScreenshot(step) == step \in {"pageInfo", "logErrorToFile"}

\* the steps whose failure the code catches where it happens
CaughtLocally(step) == step \in {"pageInfo", "screenshot", "logErrorToFile"}

\* the first step whose failure leaves reportError, 0 when none does
EscapingStep(details, env) ==
    LET esc == { i \in DOMAIN ReportSteps :
                   StepFails(ReportSteps[i], details, env)
                   /\ ~CaughtLocally(ReportSteps[i]) }
    IN  IF esc = {} THEN 0 ELSE CHOOSE i \in esc : \A j \in esc : i <= j

logErrorToFile(dir, errorDetails, now, env) ==
    IF StepFails("logErrorToFile", errorDetails.details, env)
    THEN dir
    ELSE WriteFileSync(dir, LogFileName(errorDetails.code, now), now,
                       Stringify(errorDetails), env.pos)

\* One reportError call that starts at time `now` on directory `dir`:
\* what the caller sees, the directory afterwards, and the steps in order.
reportError(dir, now, errorCode, details, screenshotName, env) ==
    LET timestamp == now
        location == getCurrentPageInfo(env.page, env.urlFails)
        fileName == ScreenshotFileName(errorCode, timestamp, screenshotName)
        screenshot == ScreenshotRelativePath(env.pageAtShot, env.shotFails, fileName)
        errorDetails == ErrorDetails(errorCode, details, location, screenshot, timestamp)
        writeTime == now + env.elapsed * DayMs
        esc == EscapingStep(details, env)
    IN  IF esc # 0
        THEN [outcome |-> "raised", value |-> StepError(ReportSteps[esc]),
              dir |-> dir,
              persisted |-> FALSE, now |-> writeTime,
              steps |-> SubSeq(ReportSteps, 1, esc)]
        ELSE [outcome |-> "returned", value |-> errorDetails,
              dir |-> logErrorToFile(dir, errorDetails, writeTime, env),
              persisted |-> ~StepFails("logErrorToFile", details, env),
              now |-> writeTime,
              steps |-> ReportSteps \o <<"return">>]

createError(errorCode, additionalMessage) ==
    [name |-> "Error",
     message |-> IF additionalMessage # NoText
                 THEN <<"[ERROR ", ToString(errorCode.code), "] ", errorCode.title,
                        ": ", errorCode.message, ": ">> \o additionalMessage
                 ELSE <<"[ERROR ", ToString(errorCode.code), "] ", errorCode.title,
                        ": ", errorCode.message>>,
     code |-> errorCode.code, category |-> errorCode.category,
     title |-> errorCode.title]

\* One handleError call: the report, then the throw.
handleError(dir, now, errorCode, details, throwError, env) ==
    LET r == reportError(dir, now, errorCode, details, NoText, env)
    IN  IF r.outcome = "raised" THEN r
        ELSE IF ~throwError THEN r
        ELSE IF MessageOf(details) = NoText /\ ~Serializable(details)
        THEN [r EXCEPT !.outcome = "raised", !.value = TypeError,
                       !.steps = r.steps \o <<"stringify">>]
        ELSE [r EXCEPT !.outcome = "raised",
                       !.value = createError(errorCode,
                                    IF MessageOf(details) # NoText
                                    THEN MessageOf(details)
                                    ELSE JsonText(details)),
                       !.steps = r.steps \o <<"createError", "throw">>]

----------------------------------------------------------------------------
(* ErrorReportingUtils: getErrorStatistics, getErrorsByCategory,             *)
(* generateAIMaintenanceReport, clearOldErrorLogs                            *)

\* JavaScript numbers as the statistics hold them: a count, or NaN
Num(n) == [isNaN |-> FALSE, val |-> n]
NaN == [isNaN |-> TRUE, val |-> 0]

\* a file whose text JSON.parse rejects, or that readFileSync cannot read
Malformed == [text |-> "not a JSON document"]

\* a JSON document of another tool or version: an object whose category is
\* not one of the enumeration
Legacy == [code |-> 0, category |-> "LEGACY"]

\* fs.readFileSync followed by JSON.parse throws
ParseThrows(body) == "category" \notin DOMAIN body

InitialStatsEmpty == <<>>

\* the loop `Object.values(ErrorCategory).forEach(category => stats[category] = 0)`:
\* the entries of stats, in insertion order
InitialStats == [i \in DOMAIN ErrorCategory |-> [key |-> ErrorCategory[i], value |-> Num(0)]]

\* stats[key]++ : a missing property reads undefined, and undefined + 1 is NaN
Increment(stats, key) ==
    IF \E i \in DOMAIN stats : stats[i].key = key
    THEN [i \in DOMAIN stats |->
            IF stats[i].key = key /\ ~stats[i].value.isNaN
            THEN [key |-> key, value |-> Num(stats[i].value.val + 1)]
            ELSE stats[i]]
    ELSE Append(stats, [key |-> key, value |-> NaN])

\* the for loop of getErrorStatistics inside its try block, from file i on: an
\* exception leaves the loop and the counts stay as they are
RECURSIVE ScanStatistics(_, _, _)
ScanStatistics(dir, i, stats) ==
    IF i > Len(dir) THEN stats
    ELSE IF ParseThrows(dir[i].body) THEN stats
    ELSE ScanStatistics(dir, i + 1, Increment(stats, dir[i].body.category))

getErrorStatistics(dir) == ScanStatistics(dir, 1, InitialStats)

\* the for loop of getErrorsByCategory inside its try block, from file i on
RECURSIVE ScanCategory(_, _, _, _)
ScanCategory(dir, i, category, errors) ==
    IF i > Len(dir) THEN errors
    ELSE IF ParseThrows(dir[i].body) THEN errors
    ELSE ScanCategory(dir, i + 1, category,
                      IF dir[i].body.category = category
                      THEN Append(errors, dir[i].body)
                      ELSE errors)

\* a scan that skips the files it cannot parse and reads on
getErrorsByCategoryPastMalformed(dir, category) ==
    LET Matches(body) == ~ParseThrows(body) /\ body.category = category
    IN  SelectSeq([k \in DOMAIN dir |-> dir[k].body], Matches)

getErrorsByCategory(dir, category) == ScanCategory(dir, 1, category, <<>>)

\* topErrors.slice(0, 10)
TopLimit == 10

Slice(seq, n) == SubSeq(seq, 1, IF Len(seq) < n THEN Len(seq) ELSE n)

FirstOfSortedAscending(stats) ==
    LET i == CHOOSE i \in DOMAIN stats :
                /\ \A j \in DOMAIN stats : stats[j].value.val >= stats[i].value.val
                /\ \A j \in 1..(i - 1) : stats[j].value.val > stats[i].value.val
    IN  stats[i].key

FirstOfSortedLastOfTied(stats) ==
    LET i == CHOOSE i \in DOMAIN stats :
                /\ \A j \in DOMAIN stats : stats[j].value.val <= stats[i].value.val
                /\ \A j \in (i + 1)..Len(stats) : stats[j].value.val < stats[i].value.val
    IN  stats[i].key

\* Object.entries(stats).sort(([, a], [, b]) => b - a)[0][0] when every count
\* is a number: the sort is stable, so the first entry with the highest count
FirstOfSortedDescending(stats) ==
    LET i == CHOOSE i \in DOMAIN stats :
                /\ \A j \in DOMAIN stats : stats[j].value.val <= stats[i].value.val
                /\ \A j \in 1..(i - 1) : stats[j].value.val < stats[i].value.val
    IN  stats[i].key

HasNaN(stats) == \E i \in DOMAIN stats : stats[i].value.isNaN

\* the keys the sort can put first: with a NaN count the comparator is
\* inconsistent and the order is implementation-defined
MostFrequentCandidates(stats) ==
    IF HasNaN(stats) THEN { stats[i].key : i \in DOMAIN stats }
    ELSE { FirstOfSortedDescending(stats) }

RECURSIVE SumFrom(_, _)
SumFrom(stats, i) ==
    IF i > Len(stats) THEN 0 ELSE stats[i].value.val + SumFrom(stats, i + 1)

\* Object.values(stats).reduce((sum, count) => sum + count, 0)
TotalErrors(stats) == IF HasNaN(stats) THEN NaN ELSE Num(SumFrom(stats, 1))

generateAIMaintenanceReport(dir, now, mostFrequentCategory) ==
    LET stats == getErrorStatistics(dir)
    IN  [statistics |-> stats,
         mostFrequentCategory |-> mostFrequentCategory,
         topErrors |-> Slice(getErrorsByCategory(dir, mostFrequentCategory), TopLimit),
         totalErrors |-> TotalErrors(stats),
         generatedAt |-> now]

\* A failure of the file system during clearOldErrorLogs: statSync or
\* unlinkSync throws at the file the listing has at position `at` (0: none).
NoFault == [at |-> 0, call |-> "none"]

\* Date.now() - (olderThanDays * 24 * 60 * 60 * 1000)
CutoffTime(now, olderThanDays) == now - olderThanDays * DayMs

IsOldOrAtCutoff(mtime, cutoffTime) == mtime <= cutoffTime

\* the test `stats.mtime.getTime() < cutoffTime`
IsOld(mtime, cutoffTime) == mtime < cutoffTime

\* the position at which the loop of clearOldErrorLogs is left by an
\* exception, Len(dir) + 1 when it runs to the end
AbortIndex(dir, cutoffTime, fault) ==
    IF /\ fault.at \in DOMAIN dir
       /\ \/ fault.call = "stat"
          \/ fault.call = "unlink" /\ IsOld(dir[fault.at].mtime, cutoffTime)
    THEN fault.at
    ELSE Len(dir) + 1

\* the directory after clearOldErrorLogs(olderThanDays) ran at time `now`
clearOldErrorLogs(dir, now, olderThanDays, fault) ==
    LET cutoffTime == CutoffTime(now, olderThanDays)
        stop == AbortIndex(dir, cutoffTime, fault)
        Kept(f) == \E i \in DOMAIN dir :
                      dir[i] = f /\ (i >= stop \/ ~IsOld(f.mtime, cutoffTime))
    IN  SelectSeq(dir, Kept)

----------------------------------------------------------------------------
(* The calls as actions *)

CallRecord(op, w, errorCode, details, throwError, env, r) ==
    [op |-> op, worker |-> w, errorCode |-> errorCode, details |-> details,
     throwError |-> throwError, env |-> env, startedAt |-> clock,
     outcome |-> r.outcome, value |-> r.value, persisted |-> r.persisted,
     steps |-> r.steps]

\* await errorReporting.reportError(errorCode, details, screenshotName)
ReportError(w, errorCode, details, screenshotName, env) ==
    LET r == reportError(logDir, clock, errorCode, details, screenshotName, env)
    IN  /\ r.now \in ClockValues
        /\ clock' = r.now
        /\ logDir' = r.dir
        /\ last' = CallRecord("reportError", w, errorCode, details, FALSE, env, r)

\* await errorReporting.handleError(errorCode, details, throwError)
HandleError(w, errorCode, details, throwError, env) ==
    LET r == handleError(logDir, clock, errorCode, details, throwError, env)
    IN  /\ r.now \in ClockValues
        /\ clock' = r.now
        /\ logDir' = r.dir
        /\ last' = CallRecord("handleError", w, errorCode, details, throwError, env, r)

\* time passes between two calls
Tick ==
    /\ \E t \in ClockValues : t > clock /\ clock' = t
    /\ UNCHANGED <<logDir, last, calls, test, api, helper, files>>

\* A SauceApiClient after its constructor: no request context, no token.
\* `live` counts the request contexts the client created and did not dispose.
NewClient == [context |-> "undefined", authToken |-> <<>>, live |-> 0]

\* a file that does not exist, and a file with its text
NoFile == [exists |-> FALSE, content |-> <<>>]
FileOf(content) == [exists |-> TRUE, content |-> content]

\* the path of the test file the maintainer is given
TestFilePath == "tests/e2e/login.spec.ts"

\* `${options.testFilePath}.bak`
BackupPath(testFilePath) == testFilePath \o ".bak"

MaintainedPaths == {TestFilePath, BackupPath(TestFilePath)}

\* neither the test file nor a backup exists
NoFiles == [p \in MaintainedPaths |-> NoFile]

\* an ApiTestHelper after its constructor
NewHelper == [isInitialized |-> FALSE]

\* no test of the model's scripts is running
NoTest == [name |-> "none", worker |-> "none", pc |-> 0, status |-> "idle"]

Init ==
    /\ clock = 0
    /\ logDir = <<>>
    /\ last = [op |-> "none"]
    /\ calls = 0
    /\ test = NoTest
    /\ api = NewClient
    /\ helper = NewHelper
    /\ files = NoFiles

\* the awaits of a call take no time on the model's clock, or one step of it
Elapsed == {0, 1}

\* Every way the page and the file system can behave during one call that
\* takes `e` clock steps and whose file the directory lists at `pos`, without
\* the combinations that differ only in a collaborator that is never called:
\* no page handle; a closed page; a live page; a page that closes before the
\* screenshot is taken.
CallEnvs(elapsed, positions) ==
    UNION { { Env("absent", "absent", FALSE, FALSE, wf, e, pos),
              Env("closed", "closed", FALSE, FALSE, wf, e, pos),
              Env("closed", "closed", TRUE, FALSE, wf, e, pos),
              Env("open", "open", FALSE, FALSE, wf, e, pos),
              Env("open", "open", FALSE, TRUE, wf, e, pos),
              Env("open", "closed", FALSE, FALSE, wf, e, pos) } :
            wf \in BOOLEAN, e \in elapsed, pos \in positions }

\* the listing position of a new file does not matter to one call: Spec
\* lists a new file last
AppendEnvs == CallEnvs(Elapsed, {Len(logDir) + 1})

\* the worker whose calls Spec follows
CallWorkers == {"worker1"}

Next ==
    \/ /\ calls < MaxCalls
       /\ calls' = calls + 1
       /\ \E w \in CallWorkers, errorCode \in ReportedEntries, details \in DetailKinds,
             env \in AppendEnvs :
             ReportError(w, errorCode, details, NoText, env)
       /\ UNCHANGED <<test, api, helper, files>>
    \/ /\ calls < MaxCalls
       /\ calls' = calls + 1
       /\ \E w \in CallWorkers, errorCode \in ReportedEntries, details \in DetailKinds,
             throwError \in BOOLEAN, env \in AppendEnvs :
             HandleError(w, errorCode, details, throwError, env)
       /\ UNCHANGED <<test, api, helper, files>>

Spec == Init /\ [][Next]_vars

----------------------------------------------------------------------------
(* The error-log store: reports, foreign files, queries and pruning *)

\* await errorReporting.getErrorStatistics()
GetErrorStatistics(w) ==
    /\ last' = [op |-> "getErrorStatistics", worker |-> w,
                value |-> getErrorStatistics(logDir)]
    /\ UNCHANGED <<clock, logDir>>

\* await errorReporting.getErrorsByCategory(category)
GetErrorsByCategory(w, category) ==
    /\ last' = [op |-> "getErrorsByCategory", worker |-> w, category |-> category,
                value |-> getErrorsByCategory(logDir, category)]
    /\ UNCHANGED <<clock, logDir>>

\* await errorReporting.generateAIMaintenanceReport()
GenerateAIMaintenanceReport(w) ==
    /\ \E first \in MostFrequentCandidates(getErrorStatistics(logDir)) :
          last' = [op |-> "generateAIMaintenanceReport", worker |-> w,
                   value |-> generateAIMaintenanceReport(logDir, clock, first)]
    /\ UNCHANGED <<clock, logDir>>

\* await errorReporting.clearOldErrorLogs(olderThanDays)
ClearOldErrorLogs(w, olderThanDays, fault) ==
    /\ logDir' = clearOldErrorLogs(logDir, clock, olderThanDays, fault)
    /\ last' = [op |-> "clearOldErrorLogs", worker |-> w,
                olderThanDays |-> olderThanDays, fault |-> fault,
                now |-> clock, before |-> logDir]
    /\ UNCHANGED clock

\* Something other than reportError leaves a .json file in the directory:
\* the scans read every file whose name ends in .json.
ExternalFile(body, pos) ==
    /\ logDir' = WriteFileSync(logDir, LogFileName(0, clock), clock, body, pos)
    /\ last' = [op |-> "externalFile"]
    /\ UNCHANGED clock

\* the file system failures clearOldErrorLogs(days) meets on the current
\* listing: a statSync that throws, or the unlinkSync of an old file that throws
Faults(days) ==
    {NoFault} \cup
    { f \in { [at |-> i, call |-> c] : i \in DOMAIN logDir, c \in {"stat", "unlink"} } :
        AbortIndex(logDir, CutoffTime(clock, days), f) = f.at }

\* the calls of SpecStore are made on a live page, and take no time
StoreEnvs ==
    { Env("open", "open", FALSE, FALSE, FALSE, 0, pos) : pos \in 1..(Len(logDir) + 1) }
    \cup { Env("open", "open", FALSE, FALSE, TRUE, 0, 1) }

QueryCategories == {"ELEMENT", "NAVIGATION"}

\* the worker that queries and prunes the store
QueryWorkers == {"worker1"}

NextStore ==
    \/ Tick
    \/ /\ Len(logDir) < MaxFiles
       /\ \E w \in Workers, errorCode \in ReportedEntries, env \in StoreEnvs :
             ReportError(w, errorCode, "plain", NoText, env)
       /\ UNCHANGED <<calls, test, api, helper, files>>
    \/ /\ Len(logDir) < MaxFiles
       /\ \E body \in {Malformed, Legacy}, pos \in 1..(Len(logDir) + 1) :
             ExternalFile(body, pos)
       /\ UNCHANGED <<calls, test, api, helper, files>>
    \/ (\E w \in QueryWorkers : GetErrorStatistics(w)) /\ UNCHANGED <<calls, test, api, helper, files>>
    \/ (\E w \in QueryWorkers, c \in QueryCategories : GetErrorsByCategory(w, c))
         /\ UNCHANGED <<calls, test, api, helper, files>>
    \/ (\E w \in QueryWorkers, days \in 0..MaxDays :
            \E fault \in Faults(days) : ClearOldErrorLogs(w, days, fault))
         /\ UNCHANGED <<calls, test, api, helper, files>>

SpecStore == Init /\ [][NextStore]_vars

----------------------------------------------------------------------------
(* The maintenance report on stores of well-formed records *)

\* the entries reported into the initial stores of SpecReport
ElementEntry == ErrorCode.ERROR_ELEMENT_NOT_CLICKABLE
NavigationEntry == ErrorCode.ERROR_NAVIGATION_FAILED
AuthEntry == ErrorCode.ERROR_AUTH_FAILED

\* nE reports of an ELEMENT entry, then nN of a NAVIGATION entry, then nA of
\* an AUTH entry
ReportSequence(nE, nN, nA) ==
    [i \in 1..(nE + nN + nA) |->
        IF i <= nE THEN ElementEntry
        ELSE IF i <= nE + nN THEN NavigationEntry ELSE AuthEntry]

\* the file reportError writes for an entry at a clock value, on a live page
ReportedFile(errorCode, now) ==
    reportError(<<>>, now, errorCode, "plain", NoText,
                Env("open", "open", FALSE, FALSE, FALSE, 0, 1)).dir[1]

\* The directory after reportError was called for entries[1], entries[2], ...
\* each call one millisecond after the one before: the file names differ, so
\* every call adds a file; the directory lists the files newest first (front)
\* or oldest first.
ReportedStore(entries, front) ==
    [i \in 1..Len(entries) |->
        LET k == IF front THEN Len(entries) + 1 - i ELSE i
        IN  ReportedFile(entries[k], k)]

InitReport ==
    /\ \E nE \in 0..MaxPerCategory, nN \in 0..2, nA \in 0..1, front \in BOOLEAN :
          logDir = ReportedStore(ReportSequence(nE, nN, nA), front)
    /\ clock = DayMs
    /\ last = [op |-> "none"]
    /\ calls = 0
    /\ test = NoTest
    /\ api = NewClient
    /\ helper = NewHelper
    /\ files = NoFiles

NextReport ==
    /\ \E w \in QueryWorkers : GenerateAIMaintenanceReport(w)
    /\ UNCHANGED <<calls, test, api, helper, files>>

SpecReport == InitReport /\ [][NextReport]_vars

----------------------------------------------------------------------------
(* BasePage: the wrapped page actions *)

\* Strings the code searches are sequences of characters.
\* String.prototype.includes
Includes(text, search) ==
    \E i \in 1..(Len(text) - Len(search) + 1) :
        SubSeq(text, i, i + Len(search) - 1) = search

\* the argument of error.message.includes('timeout')
TimeoutWord == <<"t", "i", "m", "e", "o", "u", "t">>

\* Messages of the errors the browser library raises: its timeout error
\* ("Timeout 5ms exceeded."), a message with the word in lower case
\* ("timeout 5ms"), and one that names no timeout ("closed").
TimeoutExceeded ==
    <<"T", "i", "m", "e", "o", "u", "t", " ", "5", "m", "s", " ",
      "e", "x", "c", "e", "e", "d", "e", "d", ".">>
LowerCaseTimeout == <<"t", "i", "m", "e", "o", "u", "t", " ", "5", "m", "s">>
TargetClosed == <<"c", "l", "o", "s", "e", "d">>

ErrorMessages == {TimeoutExceeded, LowerCaseTimeout, TargetClosed}

\* the error of the browser library, as a caller would see it
BrowserError(message) == [name |-> "Error", message |-> message]

\* What the underlying browser operation of one action does: it returns a
\* result, or throws an error with a message.
Returns(result) == [threw |-> FALSE, result |-> result]
Throws(message) == [threw |-> TRUE, message |-> message]

ReportAndThrowActions ==
    {"navigate", "click", "fill", "waitForElement", "selectOption",
     "expectTextToContain", "expectToBeVisible", "expectUrl", "expectTitle"}

ReportOnlyActionsVisibilityOnly == {"isVisible"}

ReportOnlyActions == {"isVisible", "getText"}

\* what the browser operation of an action can do
Operations(action) ==
    { Throws(m) : m \in ErrorMessages }
    \cup (CASE action = "isVisible" -> {Returns(<<"true">>), Returns(<<"false">>)}
            [] action = "getText" -> {Returns(<<"Products">>)}
            [] OTHER -> {Returns(NoText)})

\* the catalog entry the catch block of an action passes on
ActionEntry(action, message) ==
    CASE action = "navigate" -> ErrorCode.ERROR_NAVIGATION_FAILED
      [] action = "click" -> ErrorCode.ERROR_ELEMENT_NOT_CLICKABLE
      [] action = "fill" -> ErrorCode.ERROR_ELEMENT_NOT_VISIBLE
      [] action = "isVisible" -> ErrorCode.ERROR_LOCATOR_NOT_FOUND
      [] action = "waitForElement" -> ErrorCode.ERROR_ELEMENT_NOT_VISIBLE
      [] action = "getText" -> ErrorCode.ERROR_LOCATOR_NOT_FOUND
      [] action = "expectTextToContain" -> ErrorCode.ERROR_ASSERTION_TEXT
      [] action = "expectToBeVisible" -> ErrorCode.ERROR_ASSERTION_VISIBILITY
      [] action = "expectUrl" -> ErrorCode.ERROR_URL_MISMATCH
      [] action = "expectTitle" -> ErrorCode.ERROR_ASSERTION_PROPERTY
      [] action = "selectOption" ->
            IF Includes(message, TimeoutWord)
            THEN ErrorCode.ERROR_ELEMENT_TIMEOUT
            ELSE ErrorCode.ERROR_ELEMENT_WRONG_STATE

\* The catch block of expectUrl reads this.page.url() and the one of
\* expectTitle awaits this.page.title() before anything is reported.
CatchBlockThrows(action, env) ==
    \/ action = "expectUrl" /\ UrlThrows(env.page, env.urlFails)
    \/ action = "expectTitle" /\ TitleRejects(env.page)

\* the screenshot name isVisible passes: `element-not-found-${Date.now()}.png`
ActionScreenshotName(action, now) ==
    IF action = "isVisible" THEN <<"element-not-found-", now, ".png">> ELSE NoText

\* what a report-only action returns after its report
DegradedDefault(action) == IF action = "isVisible" THEN <<"false">> ELSE <<"">>

\* the entries a catch block reported: the record of its reportError call
Reports(r) == IF r.outcome = "returned" THEN <<r.value>> ELSE <<>>

\* a report-only action after its reportError call r: the degraded default
ReportOnly(action, r) ==
    [outcome |-> r.outcome,
     value |-> IF r.outcome = "returned" THEN DegradedDefault(action) ELSE r.value,
     dir |-> r.dir, persisted |-> r.persisted, now |-> r.now,
     steps |-> <<action, "catch">> \o r.steps, reports |-> Reports(r)]

\* a report-and-throw action after its handleError call h, whose report is r
ReportAndThrow(action, h, r) ==
    [outcome |-> h.outcome, value |-> h.value, dir |-> h.dir,
     persisted |-> h.persisted, now |-> h.now,
     steps |-> <<action, "catch">> \o h.steps, reports |-> Reports(r)]

\* the details object of every catch block holds strings and numbers only
ActionDetails == "plain"

\* One call of a BasePage action at time `now` on directory `dir`: what the
\* caller sees, the entries reported, and the directory afterwards.
BasePageCall(dir, now, action, operation, env) ==
    IF ~operation.threw
    THEN [outcome |-> "returned", value |-> operation.result, dir |-> dir,
          persisted |-> FALSE, now |-> now, steps |-> <<action>>,
          reports |-> <<>>]
    ELSE IF CatchBlockThrows(action, env)
    THEN [outcome |-> "raised", value |-> BrowserError(TargetClosed), dir |-> dir,
          persisted |-> FALSE, now |-> now, steps |-> <<action, "catch">>,
          reports |-> <<>>]
    ELSE IF action \in ReportOnlyActions
    THEN ReportOnly(action,
            reportError(dir, now, ActionEntry(action, operation.message),
                        ActionDetails, ActionScreenshotName(action, now), env))
    ELSE ReportAndThrow(action,
            handleError(dir, now, ActionEntry(action, operation.message),
                        ActionDetails, TRUE, env),
            reportError(dir, now, ActionEntry(action, operation.message),
                        ActionDetails, NoText, env))

\* what the caller of a BasePage action saw, and what the action was given
PageRecord(action, w, operation, env, r) ==
    [op |-> action, worker |-> w, operation |-> operation, env |-> env,
     startedAt |-> clock, outcome |-> r.outcome, value |-> r.value,
     persisted |-> r.persisted, steps |-> r.steps, reports |-> r.reports]

\* the state after a BasePage call whose result is r
Completes(action, w, operation, env, r) ==
    /\ r.now \in ClockValues
    /\ clock' = r.now
    /\ logDir' = r.dir
    /\ last' = PageRecord(action, w, operation, env, r)

\* await basePage.<action>(...)
BasePageAction(w, action, operation, env) ==
    Completes(action, w, operation, env,
              BasePageCall(logDir, clock, action, operation, env))

Navigate(w, operation, env) == BasePageAction(w, "navigate", operation, env)
Click(w, operation, env) == BasePageAction(w, "click", operation, env)
Fill(w, operation, env) == BasePageAction(w, "fill", operation, env)
IsVisible(w, operation, env) == BasePageAction(w, "isVisible", operation, env)
WaitForElement(w, operation, env) == BasePageAction(w, "waitForElement", operation, env)
GetText(w, operation, env) == BasePageAction(w, "getText", operation, env)
ExpectTextToContain(w, operation, env) ==
    BasePageAction(w, "expectTextToContain", operation, env)
ExpectToBeVisible(w, operation, env) ==
    BasePageAction(w, "expectToBeVisible", operation, env)
ExpectUrl(w, operation, env) == BasePageAction(w, "expectUrl", operation, env)
ExpectTitle(w, operation, env) == BasePageAction(w, "expectTitle", operation, env)
SelectOption(w, operation, env) == BasePageAction(w, "selectOption", operation, env)

\* A page object always holds a page: it is live, it closes before the
\* screenshot of the report, or it is closed when the catch block runs (its
\* url() still answers with the last address); the screenshot or the log
\* write may fail.
PageEnvsTaking(elapsed) ==
    UNION { { Env("open", "open", FALSE, FALSE, wf, e, Len(logDir) + 1),
              Env("open", "open", FALSE, TRUE, wf, e, Len(logDir) + 1),
              Env("open", "closed", FALSE, FALSE, wf, e, Len(logDir) + 1),
              Env("closed", "closed", FALSE, FALSE, wf, e, Len(logDir) + 1) } :
            wf \in BOOLEAN, e \in elapsed }

\* SpecPage follows calls whose awaits take no time on the model's clock
PageEnvs == PageEnvsTaking({0})

\* one more call of the behaviour's budget
OneMoreCall == calls < MaxCalls /\ calls' = calls + 1 /\ UNCHANGED <<test, api, helper, files>>

NextPage ==
    \/ \E o \in Operations("navigate"), env \in PageEnvs :
          OneMoreCall /\ Navigate("worker1", o, env)
    \/ \E o \in Operations("click"), env \in PageEnvs :
          OneMoreCall /\ Click("worker1", o, env)
    \/ \E o \in Operations("fill"), env \in PageEnvs :
          OneMoreCall /\ Fill("worker1", o, env)
    \/ \E o \in Operations("isVisible"), env \in PageEnvs :
          OneMoreCall /\ IsVisible("worker1", o, env)
    \/ \E o \in Operations("waitForElement"), env \in PageEnvs :
          OneMoreCall /\ WaitForElement("worker1", o, env)
    \/ \E o \in Operations("getText"), env \in PageEnvs :
          OneMoreCall /\ GetText("worker1", o, env)
    \/ \E o \in Operations("expectTextToContain"), env \in PageEnvs :
          OneMoreCall /\ ExpectTextToContain("worker1", o, env)
    \/ \E o \in Operations("expectToBeVisible"), env \in PageEnvs :
          OneMoreCall /\ ExpectToBeVisible("worker1", o, env)
    \/ \E o \in Operations("expectUrl"), env \in PageEnvs :
          OneMoreCall /\ ExpectUrl("worker1", o, env)
    \/ \E o \in Operations("expectTitle"), env \in PageEnvs :
          OneMoreCall /\ ExpectTitle("worker1", o, env)
    \/ \E o \in Operations("selectOption"), env \in PageEnvs :
          OneMoreCall /\ SelectOption("worker1", o, env)

SpecPage == Init /\ [][NextPage]_vars

----------------------------------------------------------------------------
(* The end-to-end example tests, as sequences of BasePage calls *)

\* the message of a navigation to a host that does not resolve
NameNotResolved == <<"n", "e", "t", ":", ":", "E", "R", "R">>

Step(action, operation) == [action |-> action, operation |-> operation]

\* loginPage.navigate(); loginPage.login(user, password) on the live site
LoginSteps ==
    <<Step("navigate", Returns(NoText)), Step("fill", Returns(NoText)),
      Step("fill", Returns(NoText)), Step("click", Returns(NoText))>>

TestNames ==
    {"invalid login", "non-existent elements", "navigation and assertions",
     "maintenance report"}

\* The BasePage calls of each test of error-reporting-example.spec.ts, with
\* what the browser does at each: an element that does not exist makes the
\* locator action time out, and locator.isVisible answer false.
Script(name) ==
    CASE name = "invalid login" -> LoginSteps
      [] name = "non-existent elements" ->
            LoginSteps \o
            <<Step("click", Throws(TimeoutExceeded)),
              Step("isVisible", Returns(<<"false">>)),
              Step("getText", Throws(TimeoutExceeded))>>
      [] name = "navigation and assertions" ->
            LoginSteps \o
            <<Step("navigate", Throws(NameNotResolved)),
              Step("expectTitle", Throws(TimeoutExceeded)),
              Step("expectToBeVisible", Throws(TimeoutExceeded))>>
      [] name = "maintenance report" ->
            LoginSteps \o
            <<Step("navigate", Returns(NoText)),
              Step("click", Throws(TimeoutExceeded)),
              Step("fill", Throws(TimeoutExceeded))>>

\* an exception that leaves a BasePage call leaves the test function: the
\* test fails at that step; otherwise the next step runs
Advance(t, outcome) ==
    IF outcome = "raised" THEN [t EXCEPT !.status = "failed"]
    ELSE IF t.pc = Len(Script(t.name)) THEN [t EXCEPT !.status = "passed"]
    ELSE [t EXCEPT !.pc = t.pc + 1]

\* the running test makes its next BasePage call
TestStep(env) ==
    /\ test.status = "running"
    /\ BasePageAction(test.worker, Script(test.name)[test.pc].action,
                      Script(test.name)[test.pc].operation, env)
    /\ test' = Advance(test, last'.outcome)
    /\ UNCHANGED <<calls, api, helper, files>>

InitTest ==
    /\ clock = 0
    /\ logDir = <<>>
    /\ last = [op |-> "none"]
    /\ calls = 0
    /\ \E name \in TestNames, w \in Workers :
          test = [name |-> name, worker |-> w, pc |-> 1, status |-> "running"]
    /\ api = NewClient
    /\ helper = NewHelper
    /\ files = NoFiles

NextTest == \E env \in PageEnvsTaking(Elapsed) : TestStep(env)

SpecTest == InitTest /\ [][NextTest]_vars

----------------------------------------------------------------------------
(* Reports of every entry of the catalog *)

CatalogEntries == { ErrorCode[k] : k \in DOMAIN ErrorCode }

\* a live page; the log write succeeds or fails
CatalogEnvs ==
    { Env("open", "open", FALSE, FALSE, wf, 0, Len(logDir) + 1) : wf \in BOOLEAN }

NextCatalog ==
    /\ calls < MaxCalls
    /\ calls' = calls + 1
    /\ \E errorCode \in CatalogEntries, details \in DetailKinds, env \in CatalogEnvs :
          ReportError("worker1", errorCode, details, NoText, env)
    /\ UNCHANGED <<test, api, helper, files>>

SpecCatalog == Init /\ [][NextCatalog]_vars

----------------------------------------------------------------------------
(* SauceApiClient *)

\* Texts the tests search are sequences of words.
AuthenticationFailed == <<"Authentication", "failed:", "Invalid", "credentials">>
AuthenticationSuccessful == <<"Authentication", "successful", "(mock)">>
MockToken == <<"mock-auth-token-for-testing">>
MockUserId == <<"mock-user-id-123">>

\* `Login error: ${error}`
LoginError(error) == <<"Login", "error:">> \o error

\* the errors a login can catch
ContextUndefined ==
    <<"TypeError:", "Cannot", "read", "properties", "of", "undefined">>
ContextFailure == <<"Error:", "request", "context", "failed">>

Usernames == {"standard_user", "locked_out_user", "invalid_user"}
Passwords == {"secret_sauce", "invalid_password"}

\* What the request library does during one client call: request.newContext
\* rejects, or context.dispose rejects on a context that was disposed before.
ApiEnv(newContextFails, disposeAgainFails) ==
    [newContextFails |-> newContextFails, disposeAgainFails |-> disposeAgainFails]

ApiEnvs == { ApiEnv(n, d) : n, d \in BOOLEAN }

\* await this.context.dispose() throws
DisposeThrows(client, env) ==
    \/ client.context = "undefined"
    \/ client.context = "disposed" /\ env.disposeAgainFails

\* the contexts left after this.context.dispose() returned
AfterDispose(client) == IF client.context = "live" THEN client.live - 1 ELSE client.live

\* await apiClient.init()
init(client, env) ==
    IF env.newContextFails
    THEN [outcome |-> "raised", value |-> ContextFailure, client |-> client]
    ELSE [outcome |-> "returned", value |-> <<>>,
          client |-> [client EXCEPT !.context = "live", !.live = @ + 1]]

LoginFailure(message) == [success |-> FALSE, message |-> message]

IsStandardUserAnyPassword(username, password) == username = "standard_user"

\* username === 'standard_user' && password === 'secret_sauce'
IsStandardUser(username, password) ==
    username = "standard_user" /\ password = "secret_sauce"

\* await apiClient.login(username, password)
login(client, username, password, env) ==
    IF IsStandardUser(username, password)
    THEN IF DisposeThrows(client, env)
         THEN [outcome |-> "returned",
               value |-> LoginFailure(LoginError(IF client.context = "undefined"
                                                 THEN ContextUndefined
                                                 ELSE ContextFailure)),
               client |-> [client EXCEPT !.authToken = MockToken]]
         ELSE IF env.newContextFails
         THEN [outcome |-> "returned",
               value |-> LoginFailure(LoginError(ContextFailure)),
               client |-> [client EXCEPT !.authToken = MockToken,
                                         !.context = "disposed",
                                         !.live = AfterDispose(client)]]
         ELSE [outcome |-> "returned",
               value |-> [success |-> TRUE, token |-> MockToken,
                          userId |-> MockUserId,
                          message |-> AuthenticationSuccessful],
               client |-> [client EXCEPT !.authToken = MockToken,
                                         !.context = "live",
                                         !.live = AfterDispose(client) + 1]]
    ELSE [outcome |-> "returned", value |-> LoginFailure(AuthenticationFailed),
          client |-> client]

\* await apiClient.dispose()
dispose(client, env) ==
    IF DisposeThrows(client, env)
    THEN [outcome |-> "raised",
          value |-> IF client.context = "undefined"
                    THEN ContextUndefined ELSE ContextFailure,
          client |-> client]
    ELSE [outcome |-> "returned", value |-> <<>>,
          client |-> [client EXCEPT !.context = "disposed",
                                    !.live = AfterDispose(client)]]

\* the state after a client call whose result is r
ClientCall(op, username, password, env, r) ==
    /\ calls < MaxApiCalls
    /\ calls' = calls + 1
    /\ api' = r.client
    /\ last' = [op |-> op, username |-> username, password |-> password,
                env |-> env, before |-> api, outcome |-> r.outcome,
                value |-> r.value]
    /\ UNCHANGED <<clock, logDir, test, helper, files>>

SauceInit(env) == ClientCall("init", "", "", env, init(api, env))

SauceLogin(username, password, env) ==
    ClientCall("login", username, password, env, login(api, username, password, env))

SauceDispose(env) == ClientCall("dispose", "", "", env, dispose(api, env))

NextApi ==
    \/ \E env \in ApiEnvs : SauceInit(env)
    \/ \E username \in Usernames, password \in Passwords, env \in ApiEnvs :
          SauceLogin(username, password, env)
    \/ \E env \in ApiEnvs : SauceDispose(env)

SpecApi == Init /\ [][NextApi]_vars

----------------------------------------------------------------------------
(* SauceInventoryPage: sortProducts and getCartCount *)

\* What the browser does during one sortProducts call: which of its awaits
\* fails ("none", or the locator wait of waitForElement, page.waitForSelector,
\* the selectOption of the locator, page.waitForTimeout), and the message of
\* the error it throws.
SortSteps == <<"waitForElement", "waitForSelector", "selectOption", "waitForTimeout">>

SortRun(failing, message) == [failing |-> failing, message |-> message]

SortRuns ==
    {SortRun("none", NoText)}
    \cup { SortRun(SortSteps[i], m) : i \in DOMAIN SortSteps, m \in ErrorMessages }

\* the operation a wrapped BasePage action of sortProducts performs
StepOperation(run, step) ==
    IF run.failing = step THEN Throws(run.message) ELSE Returns(NoText)

\* error.message.includes('timeout') in the catch block of sortProducts. The
\* message of an error thrown by a BasePage action is the catalog text
\* followed by the JSON text of the details, which quote the message of the
\* browser error; the catalog texts and the selector hold no 'timeout'.
SortErrorCode(message) ==
    IF Includes(message, TimeoutWord)
    THEN ErrorCode.ERROR_ELEMENT_TIMEOUT
    ELSE ErrorCode.ERROR_ELEMENT_WRONG_STATE

\* `sort-products-error-${Date.now()}.png`
SortScreenshotName(now) == <<"sort-products-error-", now, ".png">>

\* the catch block of sortProducts after its reportError call r: the caught
\* error is thrown again
SortCatch(error, reported, r) ==
    [outcome |-> "raised",
     value |-> IF r.outcome = "raised" THEN r.value ELSE error,
     dir |-> r.dir, persisted |-> r.persisted, now |-> r.now,
     reports |-> reported \o Reports(r)]

\* sortProducts after a wrapped BasePage action whose result is a; rest is
\* the result of the steps that follow it
AfterAction(a, run, env, rest) ==
    IF a.outcome = "raised"
    THEN SortCatch(a.value, a.reports,
                   reportError(a.dir, a.now, SortErrorCode(run.message),
                               ActionDetails, SortScreenshotName(a.now), env))
    ELSE rest

\* sortProducts at a bare await on this.page
BareAwait(dir, now, step, run, env, rest) ==
    IF run.failing = step
    THEN SortCatch(BrowserError(run.message), <<>>,
                   reportError(dir, now, SortErrorCode(run.message),
                               ActionDetails, SortScreenshotName(now), env))
    ELSE rest

SortReturns(dir, now) ==
    [outcome |-> "returned", value |-> NoText, dir |-> dir, persisted |-> FALSE,
     now |-> now, reports |-> <<>>]

\* await inventoryPage.sortProducts(sortOption)
sortProducts(dir, now, run, env) ==
    AfterAction(
        BasePageCall(dir, now, "waitForElement",
                     StepOperation(run, "waitForElement"), env),
        run, env,
        BareAwait(dir, now, "waitForSelector", run, env,
            AfterAction(
                BasePageCall(dir, now, "selectOption",
                             StepOperation(run, "selectOption"), env),
                run, env,
                BareAwait(dir, now, "waitForTimeout", run, env,
                          SortReturns(dir, now)))))

\* the digits of parseInt
Digits ==
    ("0" :> 0) @@ ("1" :> 1) @@ ("2" :> 2) @@ ("3" :> 3) @@ ("4" :> 4) @@
    ("5" :> 5) @@ ("6" :> 6) @@ ("7" :> 7) @@ ("8" :> 8) @@ ("9" :> 9)

\* the first index of the text that holds no white space
RECURSIVE SkipWhiteSpace(_, _)
SkipWhiteSpace(text, i) ==
    IF i <= Len(text) /\ text[i] \in {" ", ""} THEN SkipWhiteSpace(text, i + 1) ELSE i

\* the value of the digits of the text from index i on, after the value acc
RECURSIVE DigitsFrom(_, _, _)
DigitsFrom(text, i, acc) ==
    IF i <= Len(text) /\ text[i] \in DOMAIN Digits
    THEN DigitsFrom(text, i + 1, acc * 10 + Digits[text[i]])
    ELSE acc

\* parseInt(text): white space is skipped, then the leading digits are read;
\* NaN when there is none
parseInt(text) ==
    LET i == SkipWhiteSpace(text, 1)
        negative == i <= Len(text) /\ text[i] = "-"
        j == IF i <= Len(text) /\ text[i] \in {"-", "+"} THEN i + 1 ELSE i
    IN  IF j <= Len(text) /\ text[j] \in DOMAIN Digits
        THEN Num(IF negative THEN 0 - DigitsFrom(text, j, 0) ELSE DigitsFrom(text, j, 0))
        ELSE NaN

\* getCartCount after its getText call t
AfterGetText(t) ==
    [outcome |-> "returned",
     value |-> IF t.outcome = "raised" THEN Num(0) ELSE parseInt(t.value),
     dir |-> t.dir, persisted |-> t.persisted, now |-> t.now,
     reports |-> t.reports]

\* await inventoryPage.getCartCount()
getCartCount(dir, now, operation, env) ==
    AfterGetText(BasePageCall(dir, now, "getText", operation, env))

\* the state after a SauceInventoryPage call whose result is r
InventoryCall(op, input, env, r) ==
    /\ calls < MaxCalls
    /\ calls' = calls + 1
    /\ r.now \in ClockValues
    /\ clock' = r.now
    /\ logDir' = r.dir
    /\ last' = [op |-> op, input |-> input, env |-> env, filesBefore |-> Len(logDir),
                outcome |-> r.outcome, value |-> r.value, reports |-> r.reports]
    /\ UNCHANGED <<test, api, helper, files>>

SortProducts(run, env) ==
    InventoryCall("sortProducts", run, env, sortProducts(logDir, clock, run, env))

GetCartCount(operation, env) ==
    InventoryCall("getCartCount", operation, env,
                  getCartCount(logDir, clock, operation, env))

\* the decimal text of a number, one character after the other
RECURSIVE DecimalText(_)
DecimalText(n) ==
    IF n < 10 THEN <<CHOOSE d \in DOMAIN Digits : Digits[d] = n>>
    ELSE Append(DecimalText(n \div 10), CHOOSE d \in DOMAIN Digits : Digits[d] = n % 10)

\* the numbers the cart badge shows
BadgeNumbers == {1, 3, 12}

\* what the innerText call on the cart badge can do: the badge shows a
\* number, or it is absent and the call fails
BadgeOperations ==
    { Returns(DecimalText(n)) : n \in BadgeNumbers }
    \cup { Throws(m) : m \in ErrorMessages }

NextInventory ==
    \/ \E run \in SortRuns, env \in PageEnvs : SortProducts(run, env)
    \/ \E operation \in BadgeOperations, env \in PageEnvs : GetCartCount(operation, env)

SpecInventory == Init /\ [][NextInventory]_vars

----------------------------------------------------------------------------
(* config: DEFAULT_CONFIG, parseCommandLineArgs, loadConfig *)

\* JavaScript values of the configuration: undefined, strings (whole, or as
\* characters where parseInt reads them), booleans; numbers are Num(n) and NaN
Undefined == [type |-> "undefined"]
Str(s) == [type |-> "string", s |-> s]
Chars(chars) == [type |-> "string", chars |-> chars]
Bool(b) == [type |-> "boolean", b |-> b]

\* a || b for values that are undefined or non-empty strings
Or(a, b) == IF a # Undefined THEN a ELSE b

DEFAULT_CONFIG ==
    [app |-> Str("sauce-demo"), env |-> Str("qa"), headless |-> Bool(TRUE),
     workers |-> Num(1), viewport |-> [width |-> 1280, height |-> 720],
     errorReporting |-> [enabled |-> Bool(TRUE)]]

\* parseInt(value) of a command line number or of the text of a variable
ParseIntOf(value) ==
    IF "val" \in DOMAIN value THEN parseInt(DecimalText(value.val))
    ELSE parseInt(value.chars)

\* arg !== undefined ? arg === 'true' : variable !== undefined ?
\*   variable === 'true' : fallback
BooleanSetting(arg, variable, fallback) ==
    IF arg # Undefined THEN Bool(arg = Str("true"))
    ELSE IF variable # Undefined THEN Bool(variable = Str("true"))
    ELSE fallback

\* arg !== undefined ? parseInt(arg) : variable !== undefined ?
\*   parseInt(variable) : undefined
NumberSetting(arg, variable) ==
    IF arg # Undefined THEN ParseIntOf(arg)
    ELSE IF variable # Undefined THEN ParseIntOf(variable)
    ELSE Undefined

\* parseCommandLineArgs() for the parsed arguments argv and the environment
\* variables environ: every property is present, some with the value undefined
parseCommandLineArgs(argv, environ) ==
    [app |-> Or(Or(argv.app, argv.a), environ.APP),
     env |-> Or(Or(argv.env, argv.e), environ.ENV),
     headless |-> BooleanSetting(argv.headless, environ.HEADLESS, Undefined),
     workers |-> NumberSetting(argv.workers, environ.WORKERS),
     errorReporting |->
        [enabled |-> BooleanSetting(argv.errorReporting, environ.ERROR_REPORTING,
                                    DEFAULT_CONFIG.errorReporting.enabled)]]

\* { ...defaults, ...given }: every own property of `given` is copied, also
\* one whose value is undefined
Spread(defaults, given) ==
    [k \in DOMAIN defaults \cup DOMAIN given |->
        IF k \in DOMAIN given THEN given[k] ELSE defaults[k]]

\* APPLICATIONS of app-config: the base address of each environment
APPLICATIONS ==
    [x \in {"sauce-demo", "generic"} |->
        [environments |->
            IF x = "sauce-demo"
            THEN [dev |-> "https://www.saucedemo.com", staging |-> "https://www.saucedemo.com",
                  prod |-> "https://www.saucedemo.com", qa |-> "https://www.saucedemo.com"]
            ELSE [dev |-> "http://localhost:3000", staging |-> "https://staging.example.com",
                  prod |-> "https://www.example.com", qa |-> "https://qa.example.com"],
         validEnvironments |-> {"dev", "staging", "prod", "qa"}]]

\* getAppConfig(appName) throws
AppNotFound(app) == "s" \notin DOMAIN app \/ app.s \notin DOMAIN APPLICATIONS

\* !appConfig.validEnvironments.includes(config.env)
EnvironmentInvalid(app, env) ==
    "s" \notin DOMAIN env \/ env.s \notin APPLICATIONS[app.s].validEnvironments

\* loadConfig(): the merged configuration; the catch block ends the process
\* with exit code 1
loadConfig(argv, environ) ==
    LET config == Spread(DEFAULT_CONFIG, parseCommandLineArgs(argv, environ))
    IN  IF AppNotFound(config.app) \/ EnvironmentInvalid(config.app, config.env)
        THEN [outcome |-> "exited", code |-> 1, config |-> config]
        ELSE [outcome |-> "returned", code |-> 0,
              config |-> config @@
                  [baseUrl |-> APPLICATIONS[config.app.s].environments[config.env.s]]]

\* export const CONFIG = loadConfig(): once, when the module is loaded
LoadConfig(argv, environ) ==
    /\ last.op = "none"
    /\ last' = [op |-> "loadConfig", argv |-> argv, environ |-> environ]
                 @@ loadConfig(argv, environ)
    /\ UNCHANGED <<clock, logDir, calls, test, api, helper, files>>

\* what minimist hands over for the command lines of the model: nothing,
\* --app generic, --env dev, --headless / --headless=true / --headless=false,
\* --workers 4, --errorReporting=false
Argvs ==
    { [app |-> a, a |-> Undefined, env |-> e, e |-> Undefined, headless |-> h,
       workers |-> w, errorReporting |-> r] :
        a \in {Undefined, Str("generic"), Str("unknown-app")},
        e \in {Undefined, Str("dev")},
        h \in {Undefined, Str("true"), Str("false"), Bool(TRUE)},
        w \in {Undefined, Num(4)},
        r \in {Undefined, Str("false")} }

\* the environment variables of the model
Environs ==
    { [APP |-> a, ENV |-> e, HEADLESS |-> h, WORKERS |-> w, ERROR_REPORTING |-> r] :
        a \in {Undefined, Str("sauce-demo"), Str("generic")},
        e \in {Undefined, Str("staging")},
        h \in {Undefined, Str("true"), Str("false")},
        w \in {Undefined, Chars(<<"2">>)},
        r \in {Undefined, Str("false")} }

NextConfig == \E argv \in Argvs, environ \in Environs : LoadConfig(argv, environ)

SpecConfig == Init /\ [][NextConfig]_vars

----------------------------------------------------------------------------
(* AITestMaintainer: maintainTest *)

\* What the OpenAI helper and the file system do during one maintainTest
\* call: the helper answers with a text or rejects, copyFileSync or
\* writeFileSync may throw.
MaintainEnv(answer, rejects, copyFails, writeFails) ==
    [answer |-> answer, rejects |-> rejects, copyFails |-> copyFails,
     writeFails |-> writeFails]

Raised(message) == [outcome |-> "raised", message |-> message]
Answered(code) == [outcome |-> "returned", code |-> code]

\* the call of the OpenAI helper every action ends with
AskAI(env) == IF env.rejects THEN Raised(<<"OpenAI request failed">>) ELSE Answered(env.answer)

\* fixTest(testCode, errorMessage): !errorMessage holds for undefined and ''
fixTest(testCode, errorMessage, env) ==
    IF errorMessage \in {"undefined", ""}
    THEN Raised(<<"Error message is required to fix a test">>)
    ELSE AskAI(env)

\* documentTest(testCode): the documentation as a comment above the code
documentTest(testCode, env) ==
    IF env.rejects THEN AskAI(env)
    ELSE Answered(<<"/**", " * ">> \o env.answer \o <<" */">> \o testCode)

\* the switch of maintainTest
UpdatedCode(options, testCode, env) ==
    CASE options.action = "fix" -> fixTest(testCode, options.errorMessage, env)
      [] options.action = "optimize" -> AskAI(env)
      [] options.action = "document" -> documentTest(testCode, env)
      [] options.action = "refactor" -> AskAI(env)
      [] OTHER -> Raised(<<"Unsupported action: ", options.action>>)

\* what a maintainTest call leaves: what the caller sees and the files
MaintainResult(outcome, value, fs) == [outcome |-> outcome, value |-> value, files |-> fs]

WriteThenBackup(fs, testFilePath, updatedCode, env) ==
    MaintainResult("returned", testFilePath,
        [fs EXCEPT ![testFilePath] = FileOf(updatedCode),
                   ![BackupPath(testFilePath)] = FileOf(updatedCode)])

\* fs.copyFileSync(testFilePath, backupPath), then
\* fs.writeFileSync(testFilePath, updatedCode)
BackupThenWrite(fs, testFilePath, updatedCode, env) ==
    IF env.copyFails
    THEN MaintainResult("raised", <<"EACCES: copyfile">>, fs)
    ELSE IF env.writeFails
    THEN MaintainResult("raised", <<"EACCES: open">>,
                        [fs EXCEPT ![BackupPath(testFilePath)] = fs[testFilePath]])
    ELSE MaintainResult("returned", testFilePath,
            [fs EXCEPT ![BackupPath(testFilePath)] = fs[testFilePath],
                       ![testFilePath] = FileOf(updatedCode)])

\* maintainTest after the action produced u
AfterUpdate(fs, options, u, env) ==
    IF u.outcome = "raised"
    THEN MaintainResult("raised", u.message, fs)
    ELSE BackupThenWrite(fs, options.testFilePath, u.code, env)

\* await maintainer.maintainTest(options)
maintainTest(fs, options, env) ==
    IF ~fs[options.testFilePath].exists
    THEN MaintainResult("raised", <<"Test file not found: ", options.testFilePath>>, fs)
    ELSE AfterUpdate(fs, options,
                     UpdatedCode(options, fs[options.testFilePath].content, env), env)

\* the state after a maintainTest call whose result is r
Maintained(options, env, r) ==
    /\ calls < MaxCalls
    /\ calls' = calls + 1
    /\ files' = r.files
    /\ last' = [op |-> "maintainTest", options |-> options, env |-> env,
                before |-> files, outcome |-> r.outcome, value |-> r.value]
    /\ UNCHANGED <<clock, logDir, test, api, helper>>

MaintainTest(options, env) == Maintained(options, env, maintainTest(files, options, env))

\* the options of the model: the four actions and one the switch does not
\* know, with and without an error message
MaintainOptions ==
    { [testFilePath |-> TestFilePath, action |-> a, errorMessage |-> m] :
        a \in {"fix", "optimize", "document", "refactor", "delete"},
        m \in {"undefined", "", "locator not found"} }

MaintainEnvs ==
    { MaintainEnv(answer, rejects, copyFails, writeFails) :
        answer \in {<<"test('logs in', ...)">>, <<>>},
        rejects \in BOOLEAN, copyFails \in BOOLEAN, writeFails \in BOOLEAN }

\* the test file is missing or holds one of two texts; a backup of an earlier
\* run may exist
InitMaintainer ==
    /\ \E t \in {NoFile, FileOf(<<"test v1">>), FileOf(<<"test v2">>)},
          b \in {NoFile, FileOf(<<"test v0">>)} :
          files = [p \in MaintainedPaths |-> IF p = TestFilePath THEN t ELSE b]
    /\ clock = 0
    /\ logDir = <<>>
    /\ last = [op |-> "none"]
    /\ calls = 0
    /\ test = NoTest
    /\ api = NewClient
    /\ helper = NewHelper

NextMaintainer ==
    \E options \in MaintainOptions, env \in MaintainEnvs : MaintainTest(options, env)

SpecMaintainer == InitMaintainer /\ [][NextMaintainer]_vars

----------------------------------------------------------------------------
(* ApiTestHelper *)

NotInitialized ==
    <<"API", "client", "not", "initialized.", "Call", "initialize()", "first.">>

\* `Failed to initialize API client: ${loginResponse.message}`
FailedToInitialize(message) ==
    <<"Failed", "to", "initialize", "API", "client:">> \o message

\* the mock catalog of addToCart, with prices in cents
MockPrices == (4 :> 2999) @@ (1 :> 1599) @@ (2 :> 999)

RECURSIVE TotalPrice(_, _)
TotalPrice(items, i) ==
    IF i > Len(items) THEN 0
    ELSE (IF items[i].productId \in DOMAIN MockPrices
          THEN MockPrices[items[i].productId] * items[i].quantity ELSE 0)
         + TotalPrice(items, i + 1)

\* await apiClient.addToCart(cartRequest): the mock answer, no request is made
addToCart(client, items, now) ==
    [cartId |-> <<"mock-cart-", now>>, items |-> items,
     totalPrice |-> TotalPrice(items, 1)]

\* await apiClient.getProducts(): the mock products, no request is made
getProducts(client) ==
    [products |-> <<[id |-> 4, name |-> "Sauce Labs Backpack"],
                    [id |-> 1, name |-> "Sauce Labs Bolt T-Shirt"],
                    [id |-> 2, name |-> "Sauce Labs Bike Light"]>>]

\* products.map(product => ({productId: product.id, quantity: product.quantity}))
CartItems(products) ==
    [i \in DOMAIN products |->
        [productId |-> products[i].id, quantity |-> products[i].quantity]]

\* what the request library does during one helper call: during the init
\* call of the client and during its login call
HelperEnv(initEnv, loginEnv) == [init |-> initEnv, login |-> loginEnv]

\* the result of a helper call: what the caller sees, the helper and the
\* client afterwards, and the client methods the call invoked
HelperResult(outcome, value, h, client, clientCalls) ==
    [outcome |-> outcome, value |-> value, helper |-> h, client |-> client,
     clientCalls |-> clientCalls]

\* initialize after its login call l
AfterLogin(h, l) ==
    IF ~l.value.success
    THEN HelperResult("raised", FailedToInitialize(l.value.message), h, l.client,
                      <<"init", "login">>)
    ELSE HelperResult("returned", <<>>, [h EXCEPT !.isInitialized = TRUE], l.client,
                      <<"init", "login">>)

\* initialize after its init call i
AfterInit(h, i, username, password, env) ==
    IF i.outcome = "raised"
    THEN HelperResult("raised", i.value, h, i.client, <<"init">>)
    ELSE AfterLogin(h, login(i.client, username, password, env.login))

\* await apiHelper.initialize(username, password)
initialize(h, client, username, password, env) ==
    IF h.isInitialized
    THEN HelperResult("returned", <<>>, h, client, <<>>)
    ELSE AfterInit(h, init(client, env.init), username, password, env)

\* await apiHelper.setupCart(products)
setupCart(h, client, products, now) ==
    IF ~h.isInitialized
    THEN HelperResult("raised", NotInitialized, h, client, <<>>)
    ELSE HelperResult("returned", addToCart(client, CartItems(products), now).cartId,
                      h, client, <<"addToCart">>)

\* await apiHelper.getProducts()
helperGetProducts(h, client) ==
    IF ~h.isInitialized
    THEN HelperResult("raised", NotInitialized, h, client, <<>>)
    ELSE HelperResult("returned", getProducts(client).products, h, client,
                      <<"getProducts">>)

\* a helper that stays initialized when it is disposed
AfterClientDisposeKeepsFlag(h, d) ==
    HelperResult(d.outcome, d.value, h, d.client, <<"dispose">>)

\* after the dispose call d of the client
AfterClientDispose(h, d) ==
    IF d.outcome = "raised"
    THEN HelperResult("raised", d.value, h, d.client, <<"dispose">>)
    ELSE HelperResult("returned", <<>>, [h EXCEPT !.isInitialized = FALSE], d.client,
                      <<"dispose">>)

\* await apiHelper.dispose()
helperDispose(h, client, env) ==
    IF ~h.isInitialized
    THEN HelperResult("returned", <<>>, h, client, <<>>)
    ELSE AfterClientDispose(h, dispose(client, env.login))

\* the helper calls made so far, each with its outcome
History == IF "history" \in DOMAIN last THEN last.history ELSE <<>>

\* the state after a helper call whose result is r
HelperCall(op, r) ==
    /\ calls < MaxApiCalls
    /\ calls' = calls + 1
    /\ helper' = r.helper
    /\ api' = r.client
    /\ last' = [op |-> op, before |-> helper, clientBefore |-> api,
                outcome |-> r.outcome, value |-> r.value,
                clientCalls |-> r.clientCalls,
                history |-> Append(History, [op |-> op, outcome |-> r.outcome])]
    /\ UNCHANGED <<clock, logDir, test, files>>

HelperInitialize(username, password, env) ==
    HelperCall("initialize", initialize(helper, api, username, password, env))

HelperSetupCart(products) ==
    HelperCall("setupCart", setupCart(helper, api, products, clock))

HelperGetProducts == HelperCall("getProducts", helperGetProducts(helper, api))

HelperDispose(env) == HelperCall("dispose", helperDispose(helper, api, env))

\* the product lists of the tests: none, one known product, a known and an
\* unknown one
ProductLists ==
    { <<>>, <<[id |-> 4, quantity |-> 1]>>,
      <<[id |-> 4, quantity |-> 2], [id |-> 9, quantity |-> 1]>> }

HelperEnvs == { HelperEnv(i, l) : i, l \in ApiEnvs }

\* the credentials the tests initialize the helper with
HelperUsers == {"standard_user", "locked_out_user"}

NextHelper ==
    \/ \E username \in HelperUsers, env \in HelperEnvs :
          HelperInitialize(username, "secret_sauce", env)
    \/ \E products \in ProductLists : HelperSetupCart(products)
    \/ HelperGetProducts
    \/ \E env \in HelperEnvs : HelperDispose(env)

SpecHelper == Init /\ [][NextHelper]_vars

----------------------------------------------------------------------------
(* Claims about reportError and handleError, checked under Spec *)

\* the location reportError records when the page URL cannot be read
UnableToGetPageInfo == <<"Unable to get page info">>

\* C1: reportError does not raise when its collaborators fail.  For a payload
\* that can be serialized, whatever the page handle (absent, open, closed,
\* closing during the call) and whichever of url(), title(), screenshot() and
\* the log-file write fail, the call returns normally, and what it returns is
\* the error record of the entry it was given.
C1_ReportSurvivesCollaborators ==
    (last.op = "reportError" /\ Serializable(last.details))
        => /\ last.outcome = "returned"
           /\ last.value.code = last.errorCode.code
           /\ last.value.category = last.errorCode.category

\* C1 witness: a report on a closed page whose url(), title(), screenshot()
\* and log-file write all failed, and which returned a record all the same.
C1_Witness ==
    /\ last.op = "reportError"
    /\ last.env.page = "closed" /\ last.env.urlFails /\ last.env.writeFails
    /\ last.outcome = "returned"
    /\ last.value.location = UnableToGetPageInfo
    /\ last.value.screenshot = NoText
    /\ ~last.persisted

\* C2 (as claimed): reportError returns a record for every details payload,
\* one that cannot be serialized included.
C2_ReportNeverRaises ==
    last.op = "reportError" => last.outcome = "returned"

\* C3 (as claimed): handleError raises exactly when throwError is true; the
\* error it raises is the one createError builds, after the report has
\* returned, with the entry's code, category and title; with throwError false
\* it returns the error record.
C3_HandleRaisesIffThrowError ==
    last.op = "handleError" =>
        /\ (last.outcome = "raised") <=> last.throwError
        /\ last.throwError =>
              /\ last.value.name = "Error"
              /\ last.value.code = last.errorCode.code
              /\ last.value.category = last.errorCode.category
              /\ last.value.title = last.errorCode.title
              /\ \E i, j \in DOMAIN last.steps :
                    i < j /\ last.steps[i] = "return" /\ last.steps[j] = "createError"
        /\ ~last.throwError => last.value.code = last.errorCode.code

----------------------------------------------------------------------------
(* Claims about the error-log store, checked under SpecStore *)

\* the files of a directory that hold a record of one of the 11 categories
ValidRecords(dir) ==
    { i \in DOMAIN dir : ~ParseThrows(dir[i].body) /\ dir[i].body.category \in Categories }

\* the count getErrorStatistics returned for a category (-1: none, or NaN)
CountOf(stats, category) ==
    IF \E i \in DOMAIN stats : stats[i].key = category /\ ~stats[i].value.isNaN
    THEN LET i == CHOOSE i \in DOMAIN stats : stats[i].key = category /\ ~stats[i].value.isNaN
         IN  stats[i].value.val
    ELSE -1

RECURSIVE SumOfCounts(_, _)
SumOfCounts(stats, cats) ==
    IF cats = {} THEN 0
    ELSE LET c == CHOOSE c \in cats : TRUE
         IN  CountOf(stats, c) + SumOfCounts(stats, cats \ {c})

\* C4 (as claimed): every reportError or handleError call whose file write
\* succeeds leaves the directory with one file more than before, and with
\* every file that was there before unchanged.
C4_EachWriteAddsOneRecord ==
    [][ (last' # last /\ last'.op \in {"reportError", "handleError"} /\ last'.persisted)
          => /\ Len(logDir') = Len(logDir) + 1
             /\ \A i \in DOMAIN logDir : \E j \in DOMAIN logDir' : logDir'[j] = logDir[i] ]_vars

\* C5 (as claimed): the counts getErrorStatistics returns for the categories
\* of the enumeration add up to the number of valid record files in the
\* directory, wherever a malformed file is listed.
C5_StatisticsCountEveryValidRecord ==
    last.op = "getErrorStatistics"
        => SumOfCounts(last.value, Categories) = Cardinality(ValidRecords(logDir))

\* C6: getErrorStatistics returns, for each of the 11 categories of the
\* enumeration, exactly one entry, and its value is a count >= 0 (never NaN),
\* whatever the directory holds.
C6_StatisticsHaveEveryCategory ==
    last.op = "getErrorStatistics"
        => /\ Len(ErrorCategory) = 11
           /\ \A c \in Categories :
                 /\ Cardinality({ i \in DOMAIN last.value : last.value[i].key = c }) = 1
                 /\ \A i \in DOMAIN last.value :
                       last.value[i].key = c
                         => ~last.value[i].value.isNaN /\ last.value[i].value.val \in Nat

\* C6 witness: statistics taken on a directory that holds a malformed file
\* and a record of an unknown category, the latter counted under its own key.
C6_Witness ==
    /\ last.op = "getErrorStatistics"
    /\ \E i \in DOMAIN logDir : logDir[i].body = Malformed
    /\ \E i \in DOMAIN last.value : last.value[i].key = "LEGACY"

\* C7: a clearOldErrorLogs(days) run that meets no file system failure leaves
\* exactly the files whose modification time is not before now - days, in
\* their order, and running it again at once changes nothing.
C7_PruneExactAndIdempotent ==
    (last.op = "clearOldErrorLogs" /\ last.fault = NoFault)
        => LET cutoff == last.now - last.olderThanDays * DayMs
               NotBefore(f) == f.mtime >= cutoff
           IN  /\ logDir = SelectSeq(last.before, NotBefore)
               /\ clearOldErrorLogs(logDir, last.now, last.olderThanDays, NoFault) = logDir

\* C7 witness: a run that deleted a file older than the cutoff and kept a
\* file whose modification time is exactly the cutoff.
C7_Witness ==
    /\ last.op = "clearOldErrorLogs" /\ last.fault = NoFault
    /\ Len(logDir) < Len(last.before)
    /\ \E i \in DOMAIN logDir :
          logDir[i].mtime = last.now - last.olderThanDays * DayMs

\* C8 (as claimed): when statSync or unlinkSync fails on one file, every
\* other file older than the cutoff is still deleted by the same run.
C8_PruneSkipsFailingFile ==
    (last.op = "clearOldErrorLogs" /\ last.fault # NoFault)
        => \A i \in DOMAIN last.before :
              (i # last.fault.at
               /\ last.before[i].mtime < last.now - last.olderThanDays * DayMs)
                 => \A j \in DOMAIN logDir : logDir[j] # last.before[i]

\* C10 (as claimed): getErrorsByCategory(c) returns exactly the records of
\* category c that the directory holds when it is called.
C10_ByCategoryReturnsAllOfCategory ==
    last.op = "getErrorsByCategory"
        => /\ \A i \in DOMAIN last.value : last.value[i].category = last.category
           /\ \A i \in DOMAIN logDir :
                 (~ParseThrows(logDir[i].body) /\ logDir[i].body.category = last.category)
                   => \E j \in DOMAIN last.value : last.value[j] = logDir[i].body
           /\ Len(last.value) =
                 Cardinality({ i \in DOMAIN logDir :
                                 ~ParseThrows(logDir[i].body)
                                 /\ logDir[i].body.category = last.category })

----------------------------------------------------------------------------
(* Claims about the maintenance report, checked under SpecReport *)

\* how many files of a directory hold a record of a category
RecordsOf(dir, category) ==
    Cardinality({ i \in DOMAIN dir :
                    ~ParseThrows(dir[i].body) /\ dir[i].body.category = category })

WellFormed(dir) == ValidRecords(dir) = DOMAIN dir

C9_ScenarioReached ==
    /\ last.op = "generateAIMaintenanceReport"
    /\ RecordsOf(logDir, "ELEMENT") = 4
    /\ RecordsOf(logDir, "NAVIGATION") = 2
    /\ RecordsOf(logDir, "AUTH") = 1
    /\ last.value.mostFrequentCategory = "ELEMENT"

\* C24: for an unchanged store, the count getErrorStatistics returned for
\* every category of the enumeration equals the number of records
\* getErrorsByCategory returns for it, also when the store holds a malformed
\* record file.
C24_StatisticsAgreeWithCategoryQueries ==
    last.op = "getErrorStatistics"
        => \A c \in Categories :
              CountOf(last.value, c) = Len(getErrorsByCategory(logDir, c))

\* the store lists a malformed file before a record, which neither scan counts
C24_Witness ==
    /\ last.op = "getErrorStatistics"
    /\ Len(logDir) = 2
    /\ logDir[1].body = Malformed
    /\ ~ParseThrows(logDir[2].body)
    /\ logDir[2].body.category \in Categories
    /\ CountOf(last.value, logDir[2].body.category) = 0

\* the highest number of records a category of the enumeration has
HighestCount(dir) ==
    CHOOSE n \in 0..Len(dir) :
        /\ \E c \in Categories : RecordsOf(dir, c) = n
        /\ \A c \in Categories : RecordsOf(dir, c) <= n

\* the first category of the enumeration, in declaration order, with the
\* highest number of records
FirstDeclaredOfHighest(dir) ==
    LET i == CHOOSE i \in DOMAIN ErrorCategory :
                /\ RecordsOf(dir, ErrorCategory[i]) = HighestCount(dir)
                /\ \A j \in 1..(i - 1) :
                      RecordsOf(dir, ErrorCategory[j]) # HighestCount(dir)
    IN  ErrorCategory[i]

C25_EmptyStoreReached ==
    /\ last.op = "generateAIMaintenanceReport"
    /\ logDir = <<>>
    /\ last.value.statistics = InitialStats

----------------------------------------------------------------------------
(* Claims about the BasePage actions, checked under SpecPage and SpecTest *)

\* the error handleError builds from a catalog entry
IsSyntheticOf(error, entry) ==
    /\ DOMAIN error = {"name", "message", "code", "category", "title"}
    /\ error.code = entry.code
    /\ error.category = entry.category
    /\ error.title = entry.title

\* C11: when the browser operation of a report-and-throw action (click, fill,
\* navigate, waitForElement, selectOption, expectTextToContain,
\* expectToBeVisible, expectUrl, expectTitle) fails, the caller receives the
\* synthetic error with the code, category and title of the action's catalog
\* entry, after the failure was reported; never the browser's own exception.
C11_ThrowingActionsRaiseSynthetic ==
    (last.op \in ReportAndThrowActions /\ last.operation.threw)
        => /\ last.outcome = "raised"
           /\ IsSyntheticOf(last.value, ActionEntry(last.op, last.operation.message))
           /\ Len(last.reports) = 1

\* C12: when the browser operation of isVisible or getText fails, the call
\* returns (false, the empty string) after exactly one report, made with the
\* locator-not-found entry.
C12_ReportOnlyActionsReturnDefault ==
    (last.op \in {"isVisible", "getText"} /\ last.operation.threw)
        => /\ last.outcome = "returned"
           /\ last.value = (IF last.op = "isVisible" THEN <<"false">> ELSE <<"">>)
           /\ Len(last.reports) = 1
           /\ last.reports[1].code = ErrorCode.ERROR_LOCATOR_NOT_FOUND.code
           /\ last.reports[1].category = "ELEMENT"

\* C12 witness: getText failed on a timeout, its report was persisted and the
\* caller got the empty string.
C12_Witness ==
    /\ last.op = "getText"
    /\ last.operation = Throws(TimeoutExceeded)
    /\ last.outcome = "returned"
    /\ last.value = <<"">>
    /\ last.persisted
    /\ Len(logDir) = 1
    /\ logDir[1].body.code = ErrorCode.ERROR_LOCATOR_NOT_FOUND.code

\* C13: in a test, a click or navigate whose browser operation fails returns
\* normally, so the test does not stop at that step.
C13_TestContinuesAfterClickOrNavigate ==
    (last.op \in {"click", "navigate"} /\ last.operation.threw)
        => /\ last.outcome = "returned"
           /\ test.status # "failed"

\* C15: a failure of click, fill, waitForElement or selectOption whose message
\* contains "timeout" is reported under ERROR_ELEMENT_TIMEOUT, and any other
\* failure under the action's generic entry.
C15_FailuresClassifiedByMessage ==
    (/\ last.op \in {"click", "fill", "waitForElement", "selectOption"}
     /\ last.operation.threw
     /\ Len(last.reports) = 1)
        => last.reports[1].code =
              (IF Includes(last.operation.message, <<"t", "i", "m", "e", "o", "u", "t">>)
               THEN ErrorCode.ERROR_ELEMENT_TIMEOUT.code
               ELSE CASE last.op = "click" -> ErrorCode.ERROR_ELEMENT_NOT_CLICKABLE.code
                      [] last.op = "selectOption" -> ErrorCode.ERROR_ELEMENT_WRONG_STATE.code
                      [] OTHER -> ErrorCode.ERROR_ELEMENT_NOT_VISIBLE.code)

----------------------------------------------------------------------------
(* More claims about reportError and handleError *)

\* whether a text holds a piece
HasPiece(text, piece) == \E i \in DOMAIN text : text[i] = piece

\* whether a text ends with another
EndsWith(text, suffix) ==
    /\ Len(suffix) <= Len(text)
    /\ SubSeq(text, Len(text) - Len(suffix) + 1, Len(text)) = suffix

\* C14: the message of the error handleError raises embeds the entry's code,
\* its title, its category, and the message of the details or, without one,
\* their JSON text.
C14_RaisedMessageEmbedsClassification ==
    (/\ last.op = "handleError"
     /\ last.outcome = "raised"
     /\ "message" \in DOMAIN last.value)
        => /\ HasPiece(last.value.message, ToString(last.errorCode.code))
           /\ HasPiece(last.value.message, last.errorCode.title)
           /\ HasPiece(last.value.message, last.errorCode.category)
           /\ EndsWith(last.value.message,
                       IF MessageOf(last.details) # NoText
                       THEN MessageOf(last.details) ELSE JsonText(last.details))

\* C16: the record reportError returns has the code, category, title and
\* message of the catalog entry it was called with and the caller's details
\* payload, whichever entry of the catalog that is.
C16_RecordCarriesEntryAndDetails ==
    (last.op = "reportError" /\ last.outcome = "returned")
        => /\ last.errorCode \in CatalogEntries
           /\ last.value.code = last.errorCode.code
           /\ last.value.category = last.errorCode.category
           /\ last.value.title = last.errorCode.title
           /\ last.value.message = last.errorCode.message
           /\ last.value.details = last.details

\* C16 witness: a report of an API entry with a details object returned
C16_Witness ==
    /\ last.op = "reportError"
    /\ last.outcome = "returned"
    /\ last.errorCode = ErrorCode.ERROR_API_RESPONSE_INVALID
    /\ last.details = "withMessage"
    /\ last.value.category = "API"

\* a property of a record, or what stands for undefined when it has none
\* (an equality that ignores properties whose value is undefined)
Property(record, key, undefined) ==
    IF key \in DOMAIN record THEN record[key] ELSE undefined

SameRecord(a, b) ==
    /\ \A key \in {"code", "category", "message", "title", "location", "timestamp"} :
          a[key] = b[key]
    /\ Property(a, "details", "undefined") = Property(b, "details", "undefined")
    /\ Property(a, "screenshot", NoText) = Property(b, "screenshot", NoText)

\* C17: the file a reportError call wrote parses to an object equal to the
\* record the call returned.
C17_PersistedRecordReadsBackEqual ==
    (last.op = "reportError" /\ last.outcome = "returned" /\ last.persisted)
        => \E i \in DOMAIN logDir :
              /\ logDir[i].name = LogFileName(last.value.code, clock)
              /\ SameRecord(logDir[i].body, last.value)

\* C18: with a serializable payload, when the screenshot fails or there is no
\* page reportError still returns the record, persists it when the log write
\* succeeds, and the record has no screenshot; a record has a screenshot only
\* when the capture succeeded, and it is a path under the results directory.
C18_ScreenshotOnlyWhenCaptured ==
    (last.op = "reportError" /\ Serializable(last.details))
        => LET captured == last.env.pageAtShot = "open" /\ ~last.env.shotFails
           IN  /\ last.outcome = "returned"
               /\ last.persisted = ~last.env.writeFails
               /\ ~captured => last.value.screenshot = NoText
               /\ captured => /\ last.value.screenshot # NoText
                              /\ last.value.screenshot[1] = "error-screenshots/"
               /\ last.persisted =>
                     \E i \in DOMAIN logDir :
                        ("screenshot" \in DOMAIN logDir[i].body) = captured

\* C18 witness: the screenshot of a live page failed; the record was returned
\* and persisted without a screenshot.
C18_Witness ==
    /\ last.op = "reportError"
    /\ last.env.page = "open"
    /\ last.env.shotFails
    /\ last.outcome = "returned"
    /\ last.persisted
    /\ last.value.screenshot = NoText
    /\ Len(logDir) = 1
    /\ "screenshot" \notin DOMAIN logDir[1].body

\* C19: no two entries of the ErrorCode catalog have the same code: whichever
\* entry was reported, the code of its record is the code of one entry only.
C19_CodesAreUnique ==
    (last.op = "reportError" /\ last.outcome = "returned")
        => Cardinality({ k \in DOMAIN ErrorCode :
                           ErrorCode[k].code = last.value.code }) = 1

\* C19 witness: a report of the last entry of the catalog returned a record
\* whose code is the code of that entry alone.
C19_Witness ==
    /\ last.op = "reportError"
    /\ last.outcome = "returned"
    /\ last.errorCode = ErrorCode.ERROR_UNKNOWN
    /\ { k \in DOMAIN ErrorCode : ErrorCode[k].code = last.value.code } = {"ERROR_UNKNOWN"}

----------------------------------------------------------------------------
(* Claims about SauceApiClient, checked under SpecApi *)

\* C20: login with the locked-out user's credentials returns success false
\* and a message that contains 'locked out'.
C20_LockedOutLoginSaysLockedOut ==
    (/\ last.op = "login"
     /\ last.username = "locked_out_user"
     /\ last.password = "secret_sauce")
        => /\ last.outcome = "returned"
           /\ ~last.value.success
           /\ Includes(last.value.message, <<"locked", "out">>)

C27_TokenSetIffLastLoginSucceeded ==
    last.op = "login" => ((api.authToken # <<>>) <=> last.value.success)

----------------------------------------------------------------------------
(* Claims about ApiTestHelper, checked under SpecHelper *)

\* the helper calls made before the last one
Earlier == SubSeq(History, 1, Len(History) - 1)

\* some initialize of the calls returned and no dispose was called after it
InitializedIn(history) ==
    \E i \in DOMAIN history :
        /\ history[i].op = "initialize"
        /\ history[i].outcome = "returned"
        /\ \A j \in DOMAIN history : j > i => history[j].op # "dispose"

\* C22: in every sequence of initialize, setupCart, getProducts and dispose
\* calls, a setupCart or getProducts made before a successful initialize or
\* after a dispose raises 'API client not initialized' and calls nothing on
\* the client, which it leaves as it was.
C22_GuardedByInitialize ==
    (last.op \in {"setupCart", "getProducts"} /\ ~InitializedIn(Earlier))
        => /\ last.outcome = "raised"
           /\ Includes(last.value, <<"API", "client", "not", "initialized.">>)
           /\ last.clientCalls = <<>>
           /\ api = last.clientBefore

\* a setupCart after an initialize that returned and a dispose is refused
C22_Witness ==
    /\ last.op = "setupCart"
    /\ Len(History) = 3
    /\ History[1] = [op |-> "initialize", outcome |-> "returned"]
    /\ History[2] = [op |-> "dispose", outcome |-> "returned"]
    /\ last.outcome = "raised"
    /\ last.clientCalls = <<>>

\* C28: an initialize that fails to log in raises and leaves the helper
\* uninitialized, and once dispose has returned no request context created
\* by the helper's client is left undisposed; an initialize of an initialized
\* helper calls nothing on the client.
C28_FailedInitializeLeavesNothingOpen ==
    /\ (last.op = "initialize" /\ last.clientCalls = <<"init", "login">>
            /\ last.outcome = "raised")
          => ~helper.isInitialized
    /\ (last.op = "dispose" /\ last.outcome = "returned") => api.live = 0
    /\ (last.op = "initialize" /\ last.before.isInitialized)
          => last.clientCalls = <<>> /\ api = last.clientBefore

----------------------------------------------------------------------------
(* Claims about SauceInventoryPage, checked under SpecInventory *)

\* C23: one failed browser operation inside a page action is reported once and
\* produces exactly one persisted error record (when the log can be written):
\* no action path reports the same failure twice, sortProducts included.
C23_OneRecordPerFailure ==
    (last.op = "sortProducts" /\ last.input.failing # "none")
        => /\ Len(last.reports) = 1
           /\ ~last.env.writeFails => Len(logDir) = last.filesBefore + 1

\* C29: getCartCount returns 0 when the cart badge is absent or cannot be
\* read, otherwise the number on the badge.
C29_CartCountIsZeroOrBadgeNumber ==
    last.op = "getCartCount"
        => IF last.input.threw
           THEN last.value = Num(0)
           ELSE \E n \in BadgeNumbers :
                    last.input.result = DecimalText(n) /\ last.value = Num(n)

----------------------------------------------------------------------------
(* Claims about loadConfig, checked under SpecConfig *)

\* C26: loadConfig uses the DEFAULT_CONFIG value for every setting that is
\* given neither on the command line nor in an environment variable (app
\* 'sauce-demo', env 'qa', ...), a command-line value comes before an
\* environment variable, and that before the default.
C26_DefaultsFillWhatIsNotGiven ==
    last.op = "loadConfig"
        => LET argv == last.argv
               environ == last.environ
               config == last.config
           IN  /\ config.app = Or(Or(argv.app, environ.APP), DEFAULT_CONFIG.app)
               /\ config.env = Or(Or(argv.env, environ.ENV), DEFAULT_CONFIG.env)
               /\ config.headless =
                    BooleanSetting(argv.headless, environ.HEADLESS, DEFAULT_CONFIG.headless)
               /\ config.workers =
                    Or(NumberSetting(argv.workers, environ.WORKERS), DEFAULT_CONFIG.workers)
               /\ config.errorReporting.enabled =
                    BooleanSetting(argv.errorReporting, environ.ERROR_REPORTING,
                                   DEFAULT_CONFIG.errorReporting.enabled)
               /\ config.viewport = DEFAULT_CONFIG.viewport
               /\ (argv.app = Undefined /\ environ.APP = Undefined
                     /\ argv.env = Undefined /\ environ.ENV = Undefined)
                    => last.outcome = "returned"

----------------------------------------------------------------------------
(* Claims about AITestMaintainer, checked under SpecMaintainer *)

\* C30: a maintainTest call whose test file is missing, whose action is
\* unsupported, that is asked to 'fix' without an error message, or whose AI
\* call fails, raises and leaves the test file and the backup as they were;
\* a call that succeeds leaves in the .bak file exactly the content the test
\* file had before the call.
C30_FilesChangeOnlyOnSuccess ==
    last.op = "maintainTest"
        => LET options == last.options
               before == last.before
           IN  /\ ( \/ ~before[options.testFilePath].exists
                    \/ options.action \notin {"fix", "optimize", "document", "refactor"}
                    \/ options.action = "fix" /\ options.errorMessage \in {"undefined", ""}
                    \/ last.env.rejects )
                    => last.outcome = "raised" /\ files = before
               /\ last.outcome = "returned"
                    => /\ files[BackupPath(options.testFilePath)]
                            = before[options.testFilePath]
                       /\ last.value = options.testFilePath

\* a successful fix replaces an older backup by the previous test file
C30_Witness ==
    /\ last.op = "maintainTest"
    /\ last.outcome = "returned"
    /\ last.options.action = "fix"
    /\ last.before[BackupPath(TestFilePath)] = FileOf(<<"test v0">>)
    /\ files[BackupPath(TestFilePath)] = FileOf(<<"test v1">>)
    /\ files[TestFilePath] # last.before[TestFilePath]

\* the AI call of a supported action on an existing file fails
C30_AIFailureReached ==
    /\ last.op = "maintainTest"
    /\ last.before[TestFilePath].exists
    /\ last.options.action = "refactor"
    /\ last.env.rejects
    /\ last.outcome = "raised"

====
